---- MODULE Spec2Model ----
(***************************************************************************)
(* The two launchers of the repository, cheveret.c and paper.c: the        *)
(* bootstrap sequence of main, the registration of the capability tables   *)
(* in package.loaded, the capability functions the embedded program calls  *)
(* while it runs, and the child processes forkcdexec / forkexec create.    *)
(***************************************************************************)
EXTENDS Integers, Sequences, FiniteSets, TLC

\* ------------------------------------------------------------------ bounds

\* Capability calls the embedded program makes during one run.
MaxCalls == 2
\* Child processes the launcher may have: fork() fails beyond that (EAGAIN).
MaxChildren == 1
\* Command-line arguments after the program name.
MaxArgs == 2
\* Registrations applied in a row in SpecRegistry.
MaxRegs == 3

\* ------------------------------------------------------- program constants

\* <stdio.h> BUFSIZ as used for path[] and program[] (glibc value).
BUFSIZ == 8192
\* <lua.h> status codes the switch of main names.
LUA_OK == 0
LUA_ERRSYNTAX == 3
LUA_ERRMEM == 4
\* Status codes main does not name: LUA_ERRRUN (an error raised while the
\* chunk is read) and LUA_ERRGCMM (lua_load's documented fourth outcome).
LUA_ERRRUN == 2
LUA_ERRGCMM == 5
\* The status codes luaL_loadbuffer can return.
LuaStatuses == {LUA_OK, LUA_ERRRUN, LUA_ERRSYNTAX, LUA_ERRMEM, LUA_ERRGCMM}

\* ------------------------------------------------------------- C strings

\* A NUL-terminated string: what it says and its strlen.  Contents of very
\* long strings are named, not spelled out; two strings are equal iff both
\* their text and their length are.
CStr(text, len) == [text |-> text, len |-> len]
EmptyStr == CStr("", 0)

\* ------------------------------------------------------------ Lua values

Nil == [t |-> "nil", s |-> "", n |-> 0]
Str(c) == [t |-> "string", s |-> c.text, n |-> c.len]
Table(name, id) == [t |-> "table", s |-> name, n |-> id]
Func(name) == [t |-> "function", s |-> name, n |-> 0]

\* The tables the runtime itself owns: the globals table, the package
\* library and package.loaded.
GlobalsRef == Table("_G", 0)
PackageRef == Table("package", 0)
LoadedRef == Table("package.loaded", 0)

\* The standard libraries luaL_openlibs opens (a representative three).
StdLibs == {"_G", "package", "string"}
\* Names a capability table can be registered under.
CapNames == {"chevlib", "inotify", "paperlib"}
Names == StdLibs \cup CapNames

\* The function names of the luaL_Reg arrays.
chevlib == {"get_is_devel", "get_app_id", "get_app_ver", "getcwd", "forkcdexec"}
paperlib == {"get_is_devel", "get_app_id", "get_app_ver", "get_cli_args", "forkexec"}

\* A runtime instance: the value stack of the running C frame, the global
\* bindings, package.loaded, the number of tables allocated so far, and
\* whether an error was raised outside any protected call.
NoState ==
    [open |-> FALSE, stack |-> << >>, G |-> [k \in Names |-> Nil],
     loaded |-> [k \in Names |-> Nil], nalloc |-> 0, err |-> FALSE]

luaL_newstate == [NoState EXCEPT !.open = TRUE]

\* luaL_openlibs: each standard library is stored in package.loaded and
\* bound as a global of the same name.
StdValue(k) ==
    IF k = "_G" THEN GlobalsRef ELSE IF k = "package" THEN PackageRef ELSE Table(k, 0)

luaL_openlibs(Ls) ==
    [Ls EXCEPT !.G = [k \in Names |-> IF k \in StdLibs THEN StdValue(k) ELSE Ls.G[k]],
               !.loaded = [k \in Names |-> IF k \in StdLibs THEN StdValue(k) ELSE Ls.loaded[k]]]

\* ---- the stack API ----

Raise(Ls) == [Ls EXCEPT !.err = TRUE]

AbsIndex(Ls, idx) == IF idx > 0 THEN idx ELSE Len(Ls.stack) + 1 + idx

ValidIndex(Ls, idx) == AbsIndex(Ls, idx) \in 1..Len(Ls.stack)

Push(Ls, v) == [Ls EXCEPT !.stack = Append(Ls.stack, v)]

Pop(Ls, k) == [Ls EXCEPT !.stack = SubSeq(Ls.stack, 1, Len(Ls.stack) - k)]

\* t[k] for the tables of the runtime; indexing a non-table raises.
Field(Ls, t, k) ==
    IF t = GlobalsRef THEN Ls.G[k]
    ELSE IF t = LoadedRef THEN Ls.loaded[k]
    ELSE IF t = PackageRef THEN (IF k = "loaded" THEN LoadedRef ELSE Nil)
    ELSE Nil

lua_getglobal(Ls, name) ==
    IF Ls.err THEN Ls ELSE Push(Ls, Ls.G[name])

lua_getfield(Ls, idx, k) ==
    IF Ls.err THEN Ls
    ELSE IF ~ValidIndex(Ls, idx) \/ Ls.stack[AbsIndex(Ls, idx)].t # "table" THEN Raise(Ls)
    ELSE Push(Ls, Field(Ls, Ls.stack[AbsIndex(Ls, idx)], k))

lua_remove(Ls, idx) ==
    IF Ls.err THEN Ls
    ELSE IF ~ValidIndex(Ls, idx) THEN Raise(Ls)
    ELSE [Ls EXCEPT !.stack = SubSeq(Ls.stack, 1, AbsIndex(Ls, idx) - 1)
                               \o SubSeq(Ls.stack, AbsIndex(Ls, idx) + 1, Len(Ls.stack))]

lua_pushstring(Ls, c) ==
    IF Ls.err THEN Ls ELSE Push(Ls, Str(c))

\* t[k] = v with t at idx, k just below the top and v on top; pops both.
Store(Ls, t, k, v) ==
    IF t = LoadedRef /\ k.t = "string" /\ k.s \in Names
        THEN [Ls EXCEPT !.loaded[k.s] = v]
    ELSE IF t = GlobalsRef /\ k.t = "string" /\ k.s \in Names
        THEN [Ls EXCEPT !.G[k.s] = v]
    ELSE Ls

lua_settable(Ls, idx) ==
    IF Ls.err THEN Ls
    ELSE IF Len(Ls.stack) < 2 \/ ~ValidIndex(Ls, idx)
            \/ Ls.stack[AbsIndex(Ls, idx)].t # "table"
            \/ Ls.stack[Len(Ls.stack) - 1].t = "nil" THEN Raise(Ls)
    ELSE Pop(Store(Ls, Ls.stack[AbsIndex(Ls, idx)],
                   Ls.stack[Len(Ls.stack) - 1], Ls.stack[Len(Ls.stack)]), 2)

\* luaL_newlib: a new table holding the functions of a luaL_Reg array, left
\* on top of the stack.
luaL_newlib(Ls, lib) ==
    IF Ls.err THEN Ls
    ELSE Push([Ls EXCEPT !.nalloc = Ls.nalloc + 1], Table(lib, Ls.nalloc + 1))

luaopen_chevlib(Ls) == luaL_newlib(Ls, "chevlib")

\* The notification module's opener, declared in cheveret.c and defined
\* elsewhere: by the luaopen_ convention it leaves its module table on top.
luaopen_inotify(Ls) == luaL_newlib(Ls, "inotify")

\* The loader function lua_prepare is handed, by name: f(L).
Open(f, Ls) ==
    IF f = "luaopen_chevlib" THEN luaopen_chevlib(Ls)
    ELSE IF f = "luaopen_inotify" THEN luaopen_inotify(Ls)
    ELSE luaL_newlib(Ls, "paperlib")


\* The names the launchers register under, as C string literals.
NameStr(name) == CStr(name, IF name = "paperlib" THEN 8 ELSE 7)

\* lua_prepare without its last lua_remove: package.loaded stays on the stack.
lua_prepare_no_final_remove(Ls, f, name) ==
    lua_settable(Open(f, lua_pushstring(lua_remove(lua_getfield(
        lua_getglobal(Ls, "package"), -1, "loaded"), -2), NameStr(name))), -3)

\* cheveret.c lua_prepare: package.loaded[name] = the table f leaves on the
\* stack, through the stack API.
lua_prepare(Ls, f, name) ==
    lua_remove(
        lua_settable(
            Open(f,
                lua_pushstring(
                    lua_remove(
                        lua_getfield(lua_getglobal(Ls, "package"), -1, "loaded"),
                        -2),
                    NameStr(name))),
            -3),
        -1)

\* paper.c main, lines 116-122: the same registration written inline, with
\* luaL_newlib(L, paperlib) building the table.
paper_register(Ls) ==
    lua_remove(
        lua_settable(
            luaL_newlib(
                lua_pushstring(
                    lua_remove(
                        lua_getfield(lua_getglobal(Ls, "package"), -1, "loaded"),
                        -2),
                    NameStr("paperlib")),
                "paperlib"),
            -3),
        -1)

\* What the embedded program gets from require(name): the module cache entry.
Require(Ls, name) == Ls.loaded[name]


\* ------------------------------------------------------------ the process

VARIABLES
    launcher,    \* which executable runs: "cheveret" or "paper"
    blob,        \* the embedded program blob: "valid" or "malformed"
    invocation,  \* the argument vector the process is started with (_argv)
    argc, argv,  \* paper.c's static argc / argv
    L,           \* the runtime instance
    pc,          \* the statement of main that runs next
    status,      \* what luaL_loadbuffer returned (-1 before the call)
    stderr,      \* the lines written to standard error
    term,        \* how the process ended, if it has
    steps,       \* the statements of main executed so far, in order
    cwd,         \* the working directory of the launcher process
    cwdGone,     \* the OS cannot name the working directory (removed, unreadable)
    children,    \* the processes fork() created, in creation order
    lastcall,    \* the last capability call of the embedded program
    ncalls,      \* capability calls made so far
    lastreg      \* the last registration applied (SpecRegistry)

vars ==
    <<launcher, blob, invocation, argc, argv, L, pc, status, stderr, term, steps,
      cwd, cwdGone, children, lastcall, ncalls, lastreg>>

\* ---- inputs ----

ProgName(l) == IF l = "paper" THEN CStr("paper", 5) ELSE CStr("cheveret", 8)

ArgWords == {CStr("a", 1), CStr("b", 1)}

\* Every sequence of at most n elements of S.
SeqsUpTo(S, n) == UNION {[1..k -> S] : k \in 0..n}

\* The argument vector exec hands to main: the program name, then the
\* arguments of the command line.
ArgVector(l, args) == <<ProgName(l)>> \o args

HomeDir == CStr("/home/user/project", 18)
\* Working directories: an ordinary one, the longest that getcwd can report
\* into BUFSIZ - 1 bytes, and one a byte longer.
Cwds == {HomeDir, CStr("/<deep>", BUFSIZ - 2), CStr("/<deeper>", BUFSIZ - 1)}

\* Directories a spawn request names, and the ones that exist.
TmpDir == CStr("/tmp", 4)
Dirs == {TmpDir, CStr("/nonexistent", 12)}
ExistingDirs == {TmpDir, HomeDir}

\* Shell commands a spawn request carries: a short one, the longest that
\* fits program[BUFSIZ] with its terminator, and one a byte longer.
TouchCmd == CStr("touch marker", 12)
Commands == {TouchCmd, CStr("<long command>", BUFSIZ - 1), CStr("<longer command>", BUFSIZ)}

\* ---- how a process ends ----

Running == [kind |-> "running", code |-> 0]
\* exit(n) / return n from main: the low eight bits are the exit status.
Exited(n) == [kind |-> "exit", code |-> n % 256]
\* Killed by a signal (abort() raises SIGABRT; a bad access SIGSEGV): there
\* is no exit code.
Killed(sig) == [kind |-> sig, code |-> -1]

NoCall == [fn |-> "none", args |-> << >>, raised |-> FALSE, results |-> << >>]
NoReg == [f |-> "", name |-> "", before |-> NoState]

\* ---- main ----

\* The statements of main, in program order, up to the switch.
\* main loading the blob before it registers the capability tables.
MainOrder_load_first(l) ==
    IF l = "cheveret"
        THEN <<"newstate", "openlibs", "loadbuffer", "prepare_chevlib",
               "prepare_inotify", "switch", "call">>
        ELSE <<"capture", "newstate", "openlibs", "loadbuffer", "register",
               "switch", "call">>

MainOrder(l) ==
    IF l = "cheveret"
        THEN <<"newstate", "openlibs", "prepare_chevlib", "prepare_inotify",
               "loadbuffer", "switch", "call">>
        ELSE <<"capture", "newstate", "openlibs", "register",
               "loadbuffer", "switch", "call">>

PcIndex(l, p) == CHOOSE i \in 1..Len(MainOrder(l)) : MainOrder(l)[i] = p

main_next(l, p) == MainOrder(l)[PcIndex(l, p) + 1]

Init ==
    /\ launcher \in {"cheveret", "paper"}
    /\ blob \in {"valid", "malformed"}
    /\ \E args \in SeqsUpTo(ArgWords, MaxArgs) :
          /\ launcher = "cheveret" => args = << >>
          /\ invocation = ArgVector(launcher, args)
    /\ argc = 0
    /\ argv = << >>
    /\ L = NoState
    /\ pc = MainOrder(launcher)[1]
    /\ status = -1
    /\ stderr = << >>
    /\ term = Running
    /\ steps = << >>
    /\ cwd \in Cwds
    /\ cwdGone \in BOOLEAN
    /\ launcher = "paper" => cwd = HomeDir /\ ~cwdGone
    /\ children = << >>
    /\ lastcall = NoCall
    /\ ncalls = 0
    /\ lastreg = NoReg

\* The runtime's default panic handler: an error raised outside any
\* protected call is reported on standard error and the process aborts.
PanicLine == "PANIC: unprotected error in call to Lua API"

\* One statement of main that works on the runtime: the runtime it leaves,
\* and the panic if the statement raised.
Statement(newL) ==
    /\ steps' = Append(steps, pc)
    /\ IF newL.err
          THEN /\ L' = newL
               /\ pc' = "dead"
               /\ stderr' = Append(stderr, PanicLine)
               /\ term' = Killed("SIGABRT")
          ELSE /\ L' = newL
               /\ pc' = main_next(launcher, pc)
               /\ UNCHANGED <<stderr, term>>

Alive == term.kind = "running"

\* paper.c:111-112
main_capture ==
    /\ Alive /\ pc = "capture"
    /\ argc' = Len(invocation)
    /\ argv' = invocation
    /\ steps' = Append(steps, pc)
    /\ pc' = main_next(launcher, pc)
    /\ UNCHANGED <<launcher, blob, invocation, L, status, stderr, term, cwd, cwdGone,
                   children, lastcall, ncalls, lastreg>>

main_newstate ==
    /\ Alive /\ pc = "newstate"
    /\ Statement(luaL_newstate)
    /\ UNCHANGED <<launcher, blob, invocation, argc, argv, status, cwd, cwdGone,
                   children, lastcall, ncalls, lastreg>>

main_openlibs ==
    /\ Alive /\ pc = "openlibs"
    /\ Statement(luaL_openlibs(L))
    /\ UNCHANGED <<launcher, blob, invocation, argc, argv, status, cwd, cwdGone,
                   children, lastcall, ncalls, lastreg>>

main_prepare_chevlib ==
    /\ Alive /\ pc = "prepare_chevlib"
    /\ Statement(lua_prepare(L, "luaopen_chevlib", "chevlib"))
    /\ UNCHANGED <<launcher, blob, invocation, argc, argv, status, cwd, cwdGone,
                   children, lastcall, ncalls, lastreg>>

main_prepare_inotify ==
    /\ Alive /\ pc = "prepare_inotify"
    /\ Statement(lua_prepare(L, "luaopen_inotify", "inotify"))
    /\ UNCHANGED <<launcher, blob, invocation, argc, argv, status, cwd, cwdGone,
                   children, lastcall, ncalls, lastreg>>

main_register ==
    /\ Alive /\ pc = "register"
    /\ Statement(paper_register(L))
    /\ UNCHANGED <<launcher, blob, invocation, argc, argv, status, cwd, cwdGone,
                   children, lastcall, ncalls, lastreg>>

\* luaL_loadbuffer: the status codes a blob can load with, and what the
\* call leaves on the stack: the compiled chunk, or an error message.
LoadOutcomes(b) ==
    IF b = "valid" THEN LuaStatuses \ {LUA_ERRSYNTAX} ELSE LuaStatuses \ {LUA_OK}

LoadMessage == CStr("bad binary format (truncated chunk)", 35)

luaL_loadbuffer(Ls, st, name) ==
    IF st = LUA_OK THEN Push(Ls, Func(name)) ELSE Push(Ls, Str(LoadMessage))

main_loadbuffer ==
    /\ Alive /\ pc = "loadbuffer"
    /\ \E st \in LoadOutcomes(blob) :
          /\ status' = st
          /\ Statement(luaL_loadbuffer(L, st, launcher))
    /\ UNCHANGED <<launcher, blob, invocation, argc, argv, cwd, cwdGone,
                   children, lastcall, ncalls, lastreg>>


\* The fixed diagnostic lines of the two switches.
MalformedLine(l) ==
    IF l = "cheveret" THEN "Failed to load Cheveret: embedded binary is malformed."
    ELSE "Failed to load Paper: embedded binary is malformed."

MemoryLine(l) ==
    IF l = "cheveret" THEN "Failed to load Cheveret: could not allocate memory."
    ELSE "Failed to load Paper: could not allocate memory."

UnhandledLine == "Failed to load Paper: an unhandled error ocurred."

\* luaL_checkstring(L, idx): the value must be a string.
IsString(Ls, idx) == ValidIndex(Ls, idx) /\ Ls.stack[AbsIndex(Ls, idx)].t = "string"

\* What the switch on the load status does: the lines it prints, whether
\* main returns there and with what value, and whether luaL_checkstring
\* raised.  cheveret.c has no default case; paper.c has one.
Falls == [lines |-> << >>, returns |-> FALSE, value |-> 0, raised |-> FALSE]

\* The switch with the SyntaxError case lacking its return: control falls
\* into the MemoryError case.
main_switch_fallthrough(l, st, Ls) ==
    IF st = LUA_ERRSYNTAX THEN
        [lines |-> <<MalformedLine(l), Ls.stack[AbsIndex(Ls, -1)].s, MemoryLine(l)>>,
         returns |-> TRUE, value |-> 2, raised |-> FALSE]
    ELSE IF st = LUA_ERRMEM THEN
        [lines |-> <<MemoryLine(l)>>, returns |-> TRUE, value |-> 2, raised |-> FALSE]
    ELSE IF st = LUA_OK THEN Falls
    ELSE IF l = "paper" THEN
        [lines |-> <<UnhandledLine>>, returns |-> TRUE, value |-> -1, raised |-> FALSE]
    ELSE Falls

main_switch(l, st, Ls) ==
    IF st = LUA_ERRSYNTAX THEN
        IF IsString(Ls, -1)
            THEN [lines |-> <<MalformedLine(l), Ls.stack[AbsIndex(Ls, -1)].s>>,
                  returns |-> TRUE, value |-> 1, raised |-> FALSE]
            ELSE [lines |-> <<MalformedLine(l)>>, returns |-> FALSE, value |-> 0,
                  raised |-> TRUE]
    ELSE IF st = LUA_ERRMEM THEN
        [lines |-> <<MemoryLine(l)>>, returns |-> TRUE, value |-> 2, raised |-> FALSE]
    ELSE IF st = LUA_OK THEN Falls
    ELSE IF l = "paper" THEN
        [lines |-> <<UnhandledLine>>, returns |-> TRUE, value |-> -1, raised |-> FALSE]
    ELSE Falls

main_dispatch ==
    /\ Alive /\ pc = "switch"
    /\ steps' = Append(steps, pc)
    /\ LET r == main_switch(launcher, status, L) IN
          /\ stderr' = stderr \o r.lines \o (IF r.raised THEN <<PanicLine>> ELSE << >>)
          /\ term' = IF r.raised THEN Killed("SIGABRT")
                     ELSE IF r.returns THEN Exited(r.value) ELSE term
          /\ pc' = IF r.raised THEN "dead"
                   ELSE IF r.returns THEN "done" ELSE main_next(launcher, pc)
    /\ UNCHANGED <<launcher, blob, invocation, argc, argv, L, status, cwd, cwdGone,
                   children, lastcall, ncalls, lastreg>>

\* lua_call(L, 0, 0): calls the value on top of the stack; calling anything
\* but a function raises.
lua_call(Ls) ==
    IF Len(Ls.stack) >= 1 /\ Ls.stack[Len(Ls.stack)].t = "function"
        THEN Pop(Ls, 1) ELSE Raise(Ls)

\* Execute: main reaches lua_call.  The embedded program then runs
\* (pc = "running") unless the call itself raised.
main_lua_call ==
    /\ Alive /\ pc = "call"
    /\ steps' = Append(steps, pc)
    /\ L' = lua_call(L)
    /\ IF L'.err
          THEN /\ pc' = "dead"
               /\ stderr' = Append(stderr, PanicLine)
               /\ term' = Killed("SIGABRT")
          ELSE /\ pc' = "running"
               /\ UNCHANGED <<stderr, term>>
    /\ UNCHANGED <<launcher, blob, invocation, argc, argv, status, cwd, cwdGone,
                   children, lastcall, ncalls, lastreg>>

\* The embedded program finishes: lua_call returns.
program_return ==
    /\ Alive /\ pc = "running"
    /\ pc' = "return"
    /\ UNCHANGED <<launcher, blob, invocation, argc, argv, L, status, stderr, term,
                   steps, cwd, cwdGone, children, lastcall, ncalls, lastreg>>

\* The embedded program raises an error nothing catches: main has no
\* protected call, so the runtime panics.
program_error ==
    /\ Alive /\ pc = "running"
    /\ pc' = "dead"
    /\ L' = Raise(L)
    /\ stderr' = Append(stderr, PanicLine)
    /\ term' = Killed("SIGABRT")
    /\ UNCHANGED <<launcher, blob, invocation, argc, argv, status, steps, cwd, cwdGone,
                   children, lastcall, ncalls, lastreg>>

\* return 0;
main_return ==
    /\ Alive /\ pc = "return"
    /\ steps' = Append(steps, pc)
    /\ pc' = "done"
    /\ term' = Exited(0)
    /\ UNCHANGED <<launcher, blob, invocation, argc, argv, L, status, stderr, cwd,
                   cwdGone, children, lastcall, ncalls, lastreg>>


\* ------------------------------------------------- capability functions

\* A C function called from the embedded program runs on a frame of its
\* own holding the arguments; it returns n, the number of results, which
\* are the top n values of the frame.
CallFrame(Ls, args) == [Ls EXCEPT !.stack = args]

Results(r) == SubSeq(r.L.stack, Len(r.L.stack) - r.n + 1, Len(r.L.stack))

\* The caller's runtime once the frame is gone.
ReturnTo(Ls, r) == [r.L EXCEPT !.stack = Ls.stack]

\* getcwd(buf, size): fails when the directory cannot be named or when the
\* path with its terminator does not fit size bytes (ERANGE).
getcwd(dir, gone, size) ==
    IF gone \/ dir.len + 1 > size
        THEN [ok |-> FALSE, buf |-> EmptyStr]
        ELSE [ok |-> TRUE, buf |-> dir]

\* getcwd_lua without the test of getcwd's result: the zeroed buffer is
\* pushed when the query fails.
getcwd_lua_unchecked(Ls, dir, gone) ==
    [L |-> lua_pushstring(Ls, getcwd(dir, gone, BUFSIZ - 1).buf), n |-> 1]

\* cheveret.c getcwd_lua
getcwd_lua(Ls, dir, gone) ==
    IF ~getcwd(dir, gone, BUFSIZ - 1).ok
        THEN [L |-> Ls, n |-> 0]
        ELSE [L |-> lua_pushstring(Ls, getcwd(dir, gone, BUFSIZ - 1).buf), n |-> 1]

\* paper.c get_cli_args_lua: for (i = 0; i < argc; ++i) lua_pushstring(L, argv[i]);
\* argv[i] of the C array is v[i + 1] of the sequence.
RECURSIVE PushArgs(_, _, _, _)
PushArgs(Ls, i, c, v) ==
    IF i < c THEN PushArgs(lua_pushstring(Ls, v[i + 1]), i + 1, c, v) ELSE Ls

\* The loop starting at i = 1, leaving argv[0] out.
get_cli_args_lua_skip_name(Ls, c, v) == [L |-> PushArgs(Ls, 1, c, v), n |-> c - 1]

get_cli_args_lua(Ls, c, v) == [L |-> PushArgs(Ls, 0, c, v), n |-> c]

\* ---- the child of fork() ----

ShPath == CStr("/usr/bin/sh", 11)
DashC == CStr("-c", 2)

\* The child right after fork(): a copy of the parent in the middle of the
\* capability function, with program[] still zeroed.
NewChild(l, dir, cmd, pcwd) ==
    [pc |-> "strcpy", dir |-> dir, cmd |-> cmd, program |-> EmptyStr, args |-> << >>,
     cwd |-> pcwd, overflow |-> FALSE, chdir_failed |-> FALSE, exec_failed |-> FALSE,
     term |-> Running]

\* What writing past the end of program[] can lead to: the process is
\* killed, or it goes on with the command as copied, or it goes on with the
\* copy damaged by the stores that follow (args[] lies next to program[]).
Overflows == {"killed", "intact", "damaged"}

DamagedStr == CStr("<damaged command>", BUFSIZ)

\* strcpy(program, cmd) and the four stores into argv[] / args[].
\* cheveret goes on to chdir, paper straight to execv.
child_strcpy(c, l, ub) ==
    IF c.cmd.len + 1 <= BUFSIZ THEN
        [c EXCEPT !.program = c.cmd,
                  !.args = <<ShPath, DashC, c.cmd>>,
                  !.pc = IF l = "cheveret" THEN "chdir" ELSE "execv"]
    ELSE IF ub = "killed" THEN
        [c EXCEPT !.overflow = TRUE, !.pc = "dead", !.term = Killed("SIGSEGV")]
    ELSE
        [c EXCEPT !.overflow = TRUE,
                  !.program = IF ub = "intact" THEN c.cmd ELSE DamagedStr,
                  !.args = <<ShPath, DashC, IF ub = "intact" THEN c.cmd ELSE DamagedStr>>,
                  !.pc = IF l = "cheveret" THEN "chdir" ELSE "execv"]

\* if (!chdir(dir)) execv(...);  -- chdir succeeds iff the directory exists
child_chdir(c) ==
    IF c.dir \in ExistingDirs
        THEN [c EXCEPT !.cwd = c.dir, !.pc = "execv"]
        ELSE [c EXCEPT !.chdir_failed = TRUE, !.pc = "exit"]

\* execv("/usr/bin/sh", argv): on success the image is replaced and the
\* shell runs the command; on failure execv returns.
child_execv(c, ok) ==
    IF ok THEN [c EXCEPT !.pc = "sh"]
    ELSE [c EXCEPT !.exec_failed = TRUE, !.pc = "exit"]

\* The child without its exit(0): it returns from the capability function.
child_exit_missing(c) == [c EXCEPT !.pc = "returned"]

\* exit(0);
child_exit(c) == [c EXCEPT !.pc = "exited", !.term = Exited(0)]

\* ---- the parent's side of the spawn functions ----

\* forkcdexec changing directory before it forks, in the calling process.
forkcdexec_lua_chdir_first(Ls, pcwd, forked) ==
    IF ~(IsString(Ls, 1) /\ IsString(Ls, 2)) THEN
        [L |-> Ls, n |-> 0, raised |-> TRUE, cwd |-> pcwd, spawned |-> << >>]
    ELSE
        [L |-> Ls, n |-> 0, raised |-> FALSE,
         cwd |-> IF CStr(Ls.stack[1].s, Ls.stack[1].n) \in ExistingDirs
                    THEN CStr(Ls.stack[1].s, Ls.stack[1].n) ELSE pcwd,
         spawned |-> IF forked
                        THEN <<NewChild("cheveret", CStr(Ls.stack[1].s, Ls.stack[1].n),
                                        CStr(Ls.stack[2].s, Ls.stack[2].n), pcwd)>>
                        ELSE << >>]

\* cheveret.c forkcdexec_lua, as the calling process runs it: both
\* arguments are checked, fork() either creates a child or fails (-1, which
\* !fork() treats like the parent's return), and the function returns 0
\* results.  raised: luaL_checkstring rejected an argument.
forkcdexec_lua(Ls, pcwd, forked) ==
    IF ~(IsString(Ls, 1) /\ IsString(Ls, 2)) THEN
        [L |-> Ls, n |-> 0, raised |-> TRUE, cwd |-> pcwd, spawned |-> << >>]
    ELSE
        [L |-> Ls, n |-> 0, raised |-> FALSE, cwd |-> pcwd,
         spawned |-> IF forked
                        THEN <<NewChild("cheveret", CStr(Ls.stack[1].s, Ls.stack[1].n),
                                        CStr(Ls.stack[2].s, Ls.stack[2].n), pcwd)>>
                        ELSE << >>]

\* paper.c forkexec_lua
forkexec_lua(Ls, pcwd, forked) ==
    IF ~IsString(Ls, 1) THEN
        [L |-> Ls, n |-> 0, raised |-> TRUE, cwd |-> pcwd, spawned |-> << >>]
    ELSE
        [L |-> Ls, n |-> 0, raised |-> FALSE, cwd |-> pcwd,
         spawned |-> IF forked
                        THEN <<NewChild("paper", EmptyStr,
                                        CStr(Ls.stack[1].s, Ls.stack[1].n), pcwd)>>
                        ELSE << >>]


\* ---- the embedded program calls into the capability tables ----

LibFuncs(name) == IF name = "chevlib" THEN chevlib ELSE IF name = "paperlib" THEN paperlib ELSE {}

\* The embedded program reaches a capability function through
\* require(lib), i.e. through the module cache.
CanCall(lib, fn) ==
    /\ Alive /\ pc = "running" /\ ncalls < MaxCalls
    /\ Require(L, lib).t = "table" /\ Require(L, lib).s = lib
    /\ fn \in LibFuncs(lib)

DirArgs == {Str(d) : d \in Dirs}
CmdArgs == {Str(c) : c \in Commands} \cup {Nil}

\* fork(): TRUE when a child was created, FALSE when it returned -1.
ForkOutcomes == IF Len(children) < MaxChildren THEN BOOLEAN ELSE {FALSE}

call_getcwd ==
    /\ CanCall("chevlib", "getcwd")
    /\ LET r == getcwd_lua(CallFrame(L, << >>), cwd, cwdGone) IN
          /\ lastcall' = [fn |-> "getcwd", args |-> << >>, raised |-> r.L.err,
                          results |-> Results(r)]
          /\ L' = ReturnTo(L, r)
    /\ ncalls' = ncalls + 1
    /\ UNCHANGED <<launcher, blob, invocation, argc, argv, pc, status, stderr, term,
                   steps, cwd, cwdGone, children, lastreg>>

call_get_cli_args ==
    /\ CanCall("paperlib", "get_cli_args")
    /\ LET r == get_cli_args_lua(CallFrame(L, << >>), argc, argv) IN
          /\ lastcall' = [fn |-> "get_cli_args", args |-> << >>, raised |-> r.L.err,
                          results |-> Results(r)]
          /\ L' = ReturnTo(L, r)
    /\ ncalls' = ncalls + 1
    /\ UNCHANGED <<launcher, blob, invocation, argc, argv, pc, status, stderr, term,
                   steps, cwd, cwdGone, children, lastreg>>

call_forkcdexec ==
    /\ CanCall("chevlib", "forkcdexec")
    /\ \E d \in DirArgs, b \in CmdArgs, forked \in ForkOutcomes :
          LET r == forkcdexec_lua(CallFrame(L, <<d, b>>), cwd, forked) IN
             /\ lastcall' = [fn |-> "forkcdexec", args |-> <<d, b>>, raised |-> r.raised,
                             results |-> Results(r)]
             /\ L' = ReturnTo(L, r)
             /\ cwd' = r.cwd
             /\ children' = children \o r.spawned
    /\ ncalls' = ncalls + 1
    /\ UNCHANGED <<launcher, blob, invocation, argc, argv, pc, status, stderr, term,
                   steps, cwdGone, lastreg>>

call_forkexec ==
    /\ CanCall("paperlib", "forkexec")
    /\ \E b \in CmdArgs, forked \in ForkOutcomes :
          LET r == forkexec_lua(CallFrame(L, <<b>>), cwd, forked) IN
             /\ lastcall' = [fn |-> "forkexec", args |-> <<b>>, raised |-> r.raised,
                             results |-> Results(r)]
             /\ L' = ReturnTo(L, r)
             /\ cwd' = r.cwd
             /\ children' = children \o r.spawned
    /\ ncalls' = ncalls + 1
    /\ UNCHANGED <<launcher, blob, invocation, argc, argv, pc, status, stderr, term,
                   steps, cwdGone, lastreg>>

\* ---- the children run on their own, racing the parent ----

ChildFrame == <<launcher, blob, invocation, argc, argv, L, pc, status, stderr, term,
                steps, cwd, cwdGone, lastcall, ncalls, lastreg>>

step_strcpy ==
    /\ \E i \in 1..Len(children), ub \in Overflows :
          /\ children[i].pc = "strcpy"
          /\ children' = [children EXCEPT ![i] = child_strcpy(children[i], launcher, ub)]
    /\ UNCHANGED ChildFrame

step_chdir ==
    /\ \E i \in 1..Len(children) :
          /\ children[i].pc = "chdir"
          /\ children' = [children EXCEPT ![i] = child_chdir(children[i])]
    /\ UNCHANGED ChildFrame

step_execv ==
    /\ \E i \in 1..Len(children), ok \in BOOLEAN :
          /\ children[i].pc = "execv"
          /\ children' = [children EXCEPT ![i] = child_execv(children[i], ok)]
    /\ UNCHANGED ChildFrame

step_exit ==
    /\ \E i \in 1..Len(children) :
          /\ children[i].pc = "exit"
          /\ children' = [children EXCEPT ![i] = child_exit(children[i])]
    /\ UNCHANGED ChildFrame

Next ==
    \/ main_capture
    \/ main_newstate
    \/ main_openlibs
    \/ main_prepare_chevlib
    \/ main_prepare_inotify
    \/ main_register
    \/ main_loadbuffer
    \/ main_dispatch
    \/ main_lua_call
    \/ program_return
    \/ program_error
    \/ main_return
    \/ call_getcwd
    \/ call_get_cli_args
    \/ call_forkcdexec
    \/ call_forkexec
    \/ step_strcpy
    \/ step_chdir
    \/ step_execv
    \/ step_exit

Spec == Init /\ [][Next]_vars


\* ------------------------------------------------- registration on its own

\* lua_prepare and paper's inline registration applied to a runtime whose
\* standard libraries are open, under any name, any number of times up to
\* MaxRegs, with or without values already on the stack.
RegInit ==
    /\ launcher \in {"cheveret", "paper"}
    /\ blob = "valid"
    /\ invocation = ArgVector(launcher, << >>)
    /\ argc = 0
    /\ argv = << >>
    /\ \E stk \in {<< >>, <<Str(TouchCmd)>>, <<Str(TmpDir), Func("f")>>} :
          L = [luaL_openlibs(luaL_newstate) EXCEPT !.stack = stk]
    /\ pc = "registry"
    /\ status = -1
    /\ stderr = << >>
    /\ term = Running
    /\ steps = << >>
    /\ cwd = HomeDir
    /\ cwdGone = FALSE
    /\ children = << >>
    /\ lastcall = NoCall
    /\ ncalls = 0
    /\ lastreg = NoReg

RegFrame == <<launcher, blob, invocation, argc, argv, pc, status, stderr, term, steps,
              cwd, cwdGone, children, lastcall, ncalls>>

reg_lua_prepare ==
    /\ launcher = "cheveret" /\ L.nalloc < MaxRegs /\ ~L.err
    /\ \E f \in {"luaopen_chevlib", "luaopen_inotify"}, name \in CapNames :
          /\ L' = lua_prepare(L, f, name)
          /\ lastreg' = [f |-> f, name |-> name, before |-> L]
    /\ UNCHANGED RegFrame

reg_paper_register ==
    /\ launcher = "paper" /\ L.nalloc < MaxRegs /\ ~L.err
    /\ L' = paper_register(L)
    /\ lastreg' = [f |-> "newlib_paperlib", name |-> "paperlib", before |-> L]
    /\ UNCHANGED RegFrame

RegNext == reg_lua_prepare \/ reg_paper_register

SpecRegistry == RegInit /\ [][RegNext]_vars


\* ------------------------------------------------------------ properties

Did(step) == \E i \in 1..Len(steps) : steps[i] = step

\* The load outcomes of the spec: Loaded, SyntaxError, MemoryError, and
\* UnhandledError for every other status code.
Loaded == status = LUA_OK
SyntaxError == status = LUA_ERRSYNTAX
MemoryError == status = LUA_ERRMEM
UnhandledError == status \in LuaStatuses \ {LUA_OK, LUA_ERRSYNTAX, LUA_ERRMEM}

\* C1: in both launchers Execute (lua_call) is reached if and only if the
\* load outcome is Loaded, the process exits 0 when Execute returns
\* normally, and every other load outcome aborts before Execute.
C1_ExecuteIffLoaded ==
    /\ Did("call") => Loaded
    /\ (Did("switch") /\ Loaded /\ Alive) => pc \in {"call", "running", "return"}
    /\ Did("return") => term = Exited(0)
    /\ (Did("switch") /\ ~Loaded) => pc \notin {"call", "running", "return"}

\* C2: in both launchers an UnhandledError load outcome makes the sequencer
\* print one fixed diagnostic line and end the process with an exit code
\* other than 0, 1 and 2.
C2_UnhandledDiagnosed ==
    (Did("switch") /\ UnhandledError) =>
        /\ Len(stderr) = 1 /\ stderr[1] # PanicLine
        /\ term.kind = "exit" /\ term.code \notin {0, 1, 2}

\* C3: a SyntaxError outcome writes the fixed line followed by the
\* runtime's error message and exits with code exactly 1; a MemoryError
\* outcome writes its fixed line and exits with code exactly 2; both are
\* terminal, main having loaded once and never reaching Execute.
C3_LoadFailureExits ==
    /\ (Did("switch") /\ SyntaxError) =>
          /\ stderr = <<MalformedLine(launcher), LoadMessage.text>>
          /\ term = [kind |-> "exit", code |-> 1]
    /\ (Did("switch") /\ MemoryError) =>
          /\ stderr = <<MemoryLine(launcher)>>
          /\ term = [kind |-> "exit", code |-> 2]
    /\ (Did("switch") /\ (SyntaxError \/ MemoryError)) =>
          /\ pc = "done"
          /\ steps[Len(steps)] = "switch"
          /\ Cardinality({i \in 1..Len(steps) : steps[i] = "loadbuffer"}) = 1

C3_Witness ==
    /\ launcher = "cheveret" /\ SyntaxError /\ pc = "done" /\ Len(stderr) = 2

\* The order of the bootstrap steps as the claim gives it.
ExpectedOrder(l) ==
    IF l = "cheveret"
        THEN <<"newstate", "openlibs", "prepare_chevlib", "prepare_inotify",
               "loadbuffer", "switch", "call", "return">>
        ELSE <<"capture", "newstate", "openlibs", "register",
               "loadbuffer", "switch", "call", "return">>

CapTables(l) == IF l = "cheveret" THEN {"chevlib", "inotify"} ELSE {"paperlib"}

LibrariesInstalled ==
    /\ L.open
    /\ \A k \in StdLibs : Require(L, k).t = "table"
    /\ \A k \in CapTables(launcher) : Require(L, k).t = "table" /\ Require(L, k).s = k

\* C4: the steps of main happen in the fixed order create, open standard
\* libraries, install every capability table, load, execute; when the blob
\* is loaded, and from then on, the standard libraries and the launcher's
\* capability tables are in the module cache; in paper the argument vector
\* is captured before the runtime exists.
C4_OrderedBootstrap ==
    /\ Len(steps) <= Len(ExpectedOrder(launcher))
    /\ \A i \in 1..Len(steps) : steps[i] = ExpectedOrder(launcher)[i]
    /\ (pc = "loadbuffer" \/ Did("loadbuffer")) => LibrariesInstalled
    /\ (launcher = "paper" /\ L.open) => (argc = Len(invocation) /\ argv = invocation)

C4_Witness ==
    /\ launcher = "cheveret" /\ pc = "running" /\ LibrariesInstalled

\* C5: in the child, a failed chdir means the shell is never exec'd; after
\* a failed chdir or a failed execv the child's only step is exit(0); the
\* child never returns from the capability function.
C5_ChildInv ==
    \A i \in 1..Len(children) :
        LET c == children[i] IN
            /\ c.pc \in {"strcpy", "chdir", "execv", "exit", "exited", "sh", "dead"}
            /\ c.chdir_failed => (~c.exec_failed /\ c.pc \in {"exit", "exited"})
            /\ (c.chdir_failed \/ c.exec_failed) => c.pc \in {"exit", "exited"}
            /\ c.pc = "exited" => c.term = Exited(0)
            /\ c.pc = "exit" => c.term = Running

C5_ChildStep ==
    \A i \in 1..Len(children) :
        (children[i].pc = "exit" /\ children'[i] # children[i]) =>
            (children'[i].pc = "exited" /\ children'[i].term = [kind |-> "exit", code |-> 0])

C5_ChildNeverFallsThrough == []C5_ChildInv /\ [][C5_ChildStep]_vars

C5_Witness ==
    \E i \in 1..Len(children) :
        /\ children[i].chdir_failed /\ children[i].pc = "exited"
        /\ children[i].term.code = 0

\* C6: a spawn call with valid string arguments returns zero results to
\* the parent in the same step that creates the child (or creates none),
\* leaves the parent's runtime and working directory unchanged, and no step
\* of any child ever changes the parent's working directory.
SpawnReturned ==
    /\ ncalls' = ncalls + 1
    /\ lastcall'.fn \in {"forkcdexec", "forkexec"}
    /\ ~lastcall'.raised

C6_Step ==
    /\ cwd' = cwd
    /\ SpawnReturned =>
          /\ lastcall'.results = << >>
          /\ L' = L
          /\ pc' = pc /\ term' = term
          /\ Len(children') \in {Len(children), Len(children) + 1}
          /\ \A i \in 1..Len(children) : children'[i] = children[i]
          /\ \A i \in (Len(children) + 1)..Len(children') : children'[i].pc = "strcpy"

C6_ParentUnaffected == [][C6_Step]_vars

C6_Witness ==
    /\ lastcall.fn = "forkcdexec" /\ lastcall.args[1] = Str(TmpDir)
    /\ cwd = HomeDir
    /\ \E i \in 1..Len(children) : children[i].pc = "sh" /\ children[i].cwd = TmpDir

\* The arguments passed at invocation: the argument vector without the
\* program name.
PassedArgs == Tail(invocation)

C8_Step ==
    (lastreg' # lastreg \/ L' # L) =>
        LET name == lastreg'.name IN
            /\ lastreg'.before = L
            /\ ~L'.err
            /\ Require(L', name).t = "table"
            /\ Require(L', name).n > L.nalloc
            /\ Require(L', name) # Require(L, name)
            /\ \A k \in Names \ {name} : Require(L', k) = Require(L, k)
            /\ L'.G = L.G
            /\ L'.stack = L.stack

C8_RegistrationFrame == [][C8_Step]_vars

C8_Witness ==
    /\ lastreg.name = "chevlib"
    /\ Require(lastreg.before, "chevlib").t = "table"
    /\ Require(L, "chevlib") # Require(lastreg.before, "chevlib")
    /\ Require(L, "inotify").t = "table" /\ Require(L, "inotify").s = "inotify"
    /\ L.G["chevlib"] = Nil /\ L.G["inotify"] = Nil

\* The OS can report the working directory into the buffer getcwd_lua
\* offers it.
QuerySucceeds == getcwd(cwd, cwdGone, BUFSIZ - 1).ok

\* C9: getcwd returns exactly one result, the path the OS reports, when the
\* query succeeds and exactly zero results, raising nothing, when it fails;
\* never a truncated or empty path.
C9_GetcwdResult ==
    lastcall.fn = "getcwd" =>
        /\ ~lastcall.raised
        /\ QuerySucceeds => lastcall.results = <<Str(cwd)>>
        /\ ~QuerySucceeds => lastcall.results = << >>
        /\ \A i \in 1..Len(lastcall.results) :
              lastcall.results[i].n = cwd.len /\ lastcall.results[i].n > 0

C9_Witness ==
    /\ lastcall.fn = "getcwd" /\ ~cwdGone /\ cwd.len = BUFSIZ - 1
    /\ lastcall.results = << >>

\* C10: for a command of any length the copy into program[] stays inside
\* the buffer and the shell is exec'd with argv "/usr/bin/sh", "-c",
\* command, the command unmodified.
C10_CopyStaysInBuffer ==
    \A i \in 1..Len(children) :
        /\ ~children[i].overflow
        /\ children[i].pc = "sh" => children[i].args = <<ShPath, DashC, children[i].cmd>>

====
